---- MODULE Spec2Model ----
(***************************************************************************)
(* The prescription intake wizard of                                       *)
(* frontend/src/components/PrescriptionForm.tsx (first variant of the      *)
(* file, lines 1-905) together with the extractor client it awaits.        *)
(*                                                                         *)
(* Strings are sequences of one-character strings, so that trim, split     *)
(* and the template literals of the component are computed and not         *)
(* assumed.  The debug panel state (debugResponse, debugExpanded) feeds    *)
(* no handler and is left out.                                             *)
(***************************************************************************)
EXTENDS Integers, Sequences, FiniteSets, TLC

VARIABLES
    step,             \* useState "prescription" | "extracting" | "validate" | "phone"
    prescription,     \* useState("")
    items,            \* useState<ValidatedItem[]>([])
    phone,            \* useState("")
    selectedCountry,  \* useState(countries[0])
    newItemForm,      \* useState(initialNewItemState)
    showNewItemForm,  \* useState(false)
    extractionError,  \* useState<string | null>(null)
    pending,          \* the extraction requests in flight (their texts)
    emitted,          \* the arguments of the onSubmit calls of the latest event
    sinkOutcome,      \* how the latest onSubmit call ended, once it has
    now,              \* the latest value Date.now() has returned
    edits,            \* field edits made so far (bounded by MaxEdits)
    submitted,        \* pages/Index.tsx: useState(false)
    deleted,          \* history: the ids of the rows deleted (SpecDeleted)
    server,           \* the prescriptions the backend holds
    queryCache,       \* the query cache of the QueryClient
    response,         \* api/client.ts: the operation called and fetch's Response
    settlement,       \* api/client.ts: how the operation's promise settled
    language,         \* LanguageContext: useState<Language>("en")
    languageLog,      \* history: the arguments of setLanguage so far
    rendered          \* the last t(key) a component rendered

\* The state of the form, and the state around it.
formVars == <<step, prescription, items, phone, selectedCountry, newItemForm,
              showNewItemForm, extractionError, pending, emitted, sinkOutcome,
              now, edits>>

cacheVars == <<server, queryCache>>

clientVars == <<response, settlement>>

languageVars == <<language, languageLog, rendered>>

outsideForm == <<submitted, deleted, cacheVars, clientVars, languageVars>>

vars == <<step, prescription, items, phone, selectedCountry, newItemForm,
          showNewItemForm, extractionError, pending, emitted, sinkOutcome,
          now, edits, submitted, deleted, cacheVars, clientVars, languageVars>>

(***************************************************************************)
(* Bounds of the model.                                                    *)
(***************************************************************************)
MaxItems == 2
MaxClock == 1
MaxEdits == 1

\* JavaScript values of type number | null: null, NaN, or a number.
NULL == "null"
JsNull == [k |-> "null", v |-> 0]
JsNaN == [k |-> "NaN", v |-> 0]
Num(n) == [k |-> "number", v |-> n]

(***************************************************************************)
(* String helpers: what String.prototype.trim, split(" ")[0] and Number    *)
(* do on the alphabet the model types with.                                *)
(***************************************************************************)
IsSpace(c) == c \in {" ", "\t", "\n"}

RECURSIVE TrimStart(_)
TrimStart(s) ==
    IF s = <<>> THEN <<>>
    ELSE IF IsSpace(Head(s)) THEN TrimStart(Tail(s))
    ELSE s

RECURSIVE TrimEnd(_)
TrimEnd(s) ==
    IF s = <<>> THEN <<>>
    ELSE IF IsSpace(s[Len(s)]) THEN TrimEnd(SubSeq(s, 1, Len(s) - 1))
    ELSE s

Trim_untrimmed(s) == s

Trim(s) == TrimEnd(TrimStart(s))

\* s.split(" ")[0]: the characters before the first space (the whole string
\* when it has none).
RECURSIVE FirstSegment(_)
FirstSegment(s) ==
    IF s = <<>> THEN <<>>
    ELSE IF Head(s) = " " THEN <<>>
    ELSE <<Head(s)>> \o FirstSegment(Tail(s))

Digits == <<"0", "1", "2", "3", "4", "5", "6", "7", "8", "9">>

IsDigit(c) == \E d \in 1..10 : Digits[d] = c

DigitVal(c) == (CHOOSE d \in 1..10 : Digits[d] = c) - 1

RECURSIVE DecimalValue(_)
DecimalValue(s) ==
    IF s = <<>> THEN 0
    ELSE 10 * DecimalValue(SubSeq(s, 1, Len(s) - 1)) + DigitVal(s[Len(s)])

\* Number(value) on strings of digits, white space and letters: white space is
\* trimmed, the empty string is 0, a run of digits is its value, anything
\* else is NaN.
Number(s) ==
    LET t == Trim(s) IN
    IF t = <<>> THEN Num(0)
    ELSE IF \A i \in 1..Len(t) : IsDigit(t[i]) THEN Num(DecimalValue(t))
    ELSE JsNaN

(***************************************************************************)
(* Program data.                                                           *)
(***************************************************************************)
\* The country list; name and flag are display-only and left out.
countries == <<
    [code |-> "MX", dialCode |-> <<"+", "5", "2">>],
    [code |-> "US", dialCode |-> <<"+", "1">>],
    [code |-> "ES", dialCode |-> <<"+", "3", "4">>],
    [code |-> "AR", dialCode |-> <<"+", "5", "4">>],
    [code |-> "CO", dialCode |-> <<"+", "5", "7">>],
    [code |-> "PE", dialCode |-> <<"+", "5", "1">>],
    [code |-> "CL", dialCode |-> <<"+", "5", "6">>],
    [code |-> "EC", dialCode |-> <<"+", "5", "9", "3">>],
    [code |-> "VE", dialCode |-> <<"+", "5", "8">>],
    [code |-> "GT", dialCode |-> <<"+", "5", "0", "2">>],
    [code |-> "CU", dialCode |-> <<"+", "5", "3">>],
    [code |-> "BO", dialCode |-> <<"+", "5", "9", "1">>],
    [code |-> "DO", dialCode |-> <<"+", "1">>],
    [code |-> "HN", dialCode |-> <<"+", "5", "0", "4">>],
    [code |-> "PY", dialCode |-> <<"+", "5", "9", "5">>],
    [code |-> "SV", dialCode |-> <<"+", "5", "0", "3">>],
    [code |-> "NI", dialCode |-> <<"+", "5", "0", "5">>],
    [code |-> "CR", dialCode |-> <<"+", "5", "0", "6">>],
    [code |-> "PA", dialCode |-> <<"+", "5", "0", "7">>],
    [code |-> "UY", dialCode |-> <<"+", "5", "9", "8">>],
    [code |-> "PR", dialCode |-> <<"+", "1">>],
    [code |-> "BR", dialCode |-> <<"+", "5", "5">>],
    [code |-> "CA", dialCode |-> <<"+", "1">>],
    [code |-> "GB", dialCode |-> <<"+", "4", "4">>],
    [code |-> "FR", dialCode |-> <<"+", "3", "3">>],
    [code |-> "DE", dialCode |-> <<"+", "4", "9">>],
    [code |-> "IT", dialCode |-> <<"+", "3", "9">>],
    [code |-> "PT", dialCode |-> <<"+", "3", "5", "1">>]
>>

initialNewItemState ==
    [item_type |-> "medication",
     item_name_complete |-> <<>>,
     pills_per_dose |-> <<>>,
     doses_per_day |-> <<>>,
     treatment_duration_days |-> <<>>,
     total_pills_required |-> <<>>]

ItemTypes == {"medication", "food", "procedure"}

NumericFields ==
    {"pills_per_dose", "doses_per_day", "treatment_duration_days",
     "total_pills_required"}

\* The message t("errorExtraction") yields: the translation, or the key
\* itself when the table has no entry; a non-empty string either way.
errorExtraction_unset == NULL

errorExtraction == "errorExtraction"

manualPrefix == <<"[", "M", "a", "n", "u", "a", "l", "]", " ">>

(***************************************************************************)
(* Inputs of the environment: what the user types and selects, and what    *)
(* the extraction service answers.                                         *)
(***************************************************************************)
PrescriptionInputs == {<<>>, <<" ", "\n">>, <<" ", "a">>}

PhoneInputs == {<<>>, <<" ">>, <<"5", " ", "1">>}

DescriptionInputs == {<<>>, <<" ">>, <<" ", "B", " ", "c">>}

NumericInputs == {<<>>, <<"2">>}

CountryInputs == {"US", "ZZ"}

candidateA ==
    [item_type |-> "medication",
     item_name |-> <<"A">>,
     item_name_complete |-> <<"A", " ", "1">>,
     pills_per_dose |-> Num(1),
     doses_per_day |-> Num(1),
     treatment_duration_days |-> Num(7),
     total_pills_required |-> Num(7),
     raw_prescription_text |-> <<"A", " ", "1">>,
     confidence_level |-> "high",
     requires_human_review |-> FALSE]

candidateF ==
    [item_type |-> "food",
     item_name |-> <<"F">>,
     item_name_complete |-> <<"F">>,
     pills_per_dose |-> JsNull,
     doses_per_day |-> Num(2),
     treatment_duration_days |-> JsNull,
     total_pills_required |-> JsNull,
     raw_prescription_text |-> <<"F", "?">>,
     confidence_level |-> "low",
     requires_human_review |-> TRUE]

\* A candidate the service sends without its source fragment: the response is
\* not validated, and "" is a string.
candidateE ==
    [item_type |-> "procedure",
     item_name |-> <<"E">>,
     item_name_complete |-> <<"E">>,
     pills_per_dose |-> JsNull,
     doses_per_day |-> JsNull,
     treatment_duration_days |-> JsNull,
     total_pills_required |-> JsNull,
     raw_prescription_text |-> <<>>,
     confidence_level |-> "low",
     requires_human_review |-> TRUE]

\* The item lists an extraction response can carry.
ResponseItems ==
    {<<>>, <<candidateA>>, <<candidateA, candidateF>>, <<candidateE>>}

\* How one fetch of the extractor ends: the request is rejected (network),
\* or a response arrives with a status, a body that parses as JSON or not,
\* and, when it parses, an items list or none.
FetchOutcomes ==
    {[kind |-> "rejected"]}
    \cup {[kind |-> "response", ok |-> FALSE, json |-> j] : j \in BOOLEAN}
    \cup {[kind |-> "response", ok |-> TRUE, json |-> FALSE]}
    \cup {[kind |-> "response", ok |-> TRUE, json |-> TRUE, hasItems |-> FALSE]}
    \cup {[kind |-> "response", ok |-> TRUE, json |-> TRUE, hasItems |-> TRUE,
           items |-> r] : r \in ResponseItems}

(***************************************************************************)
(* The component's derived values and the pure parts of its handlers.      *)
(***************************************************************************)
\* `${selectedCountry.dialCode} ${phone}`, or "" for an empty phone.
fullPhoneNumber_local == phone

fullPhoneNumber ==
    IF phone # <<>> THEN selectedCountry.dialCode \o <<" ">> \o phone ELSE <<>>

\* `item-${index}-${Date.now()}` and `item-${Date.now()}`: the numbers that
\* fill the template.  Neither number prints a "-", so two ids are equal as
\* strings exactly when these tuples are equal.
extractedId_noIndex(index, clock) == <<clock>>

extractedId(index, clock) == <<index, clock>>

manualId(clock) == <<clock>>

\* extractPrescription: what the awaited promise settles to for one fetch.
extractPrescription(outcome) ==
    IF outcome.kind = "rejected" THEN [thrown |-> TRUE]
    ELSE IF ~outcome.ok THEN [thrown |-> TRUE]
    ELSE IF ~outcome.json THEN [thrown |-> TRUE]
    ELSE [thrown |-> FALSE, body |-> outcome]

validatedItems_appended(resultItems, clock) ==
    items \o
    [i \in 1..Len(resultItems) |->
        [id |-> extractedId(i - 1, clock), validated |-> FALSE] @@ resultItems[i]]

\* result.items.map((item, index) => ({...item, id, validated: false}))
validatedItems(resultItems, clock) ==
    [i \in 1..Len(resultItems) |->
        [id |-> extractedId(i - 1, clock), validated |-> FALSE] @@ resultItems[i]]

toggledItems(list, id) ==
    [i \in 1..Len(list) |->
        IF list[i].id = id
        THEN [list[i] EXCEPT !.validated = ~list[i].validated]
        ELSE list[i]]

updatedItems_unvalidates(list, id, field, value) ==
    [i \in 1..Len(list) |->
        IF list[i].id # id THEN list[i]
        ELSE IF field \in NumericFields
        THEN [list[i] EXCEPT ![field] = IF value = <<>> THEN JsNull ELSE Number(value),
                             !.validated = FALSE]
        ELSE [list[i] EXCEPT ![field] = value, !.validated = FALSE]]

updatedItems_validates(list, id, field, value) ==
    [i \in 1..Len(list) |->
        IF list[i].id # id THEN list[i]
        ELSE IF field \in NumericFields
        THEN [list[i] EXCEPT ![field] = IF value = <<>> THEN JsNull ELSE Number(value),
                             !.validated = TRUE]
        ELSE [list[i] EXCEPT ![field] = value, !.validated = TRUE]]

updatedItems_rewritesRawText(list, id, field, value) ==
    [i \in 1..Len(list) |->
        IF list[i].id # id THEN list[i]
        ELSE IF field \in NumericFields
        THEN [list[i] EXCEPT ![field] = IF value = <<>> THEN JsNull ELSE Number(value)]
        ELSE IF field = "item_name_complete"
        THEN [list[i] EXCEPT ![field] = value, !.raw_prescription_text = value]
        ELSE [list[i] EXCEPT ![field] = value]]

updatedItems(list, id, field, value) ==
    [i \in 1..Len(list) |->
        IF list[i].id # id THEN list[i]
        ELSE IF field \in NumericFields
        THEN [list[i] EXCEPT ![field] = IF value = <<>> THEN JsNull ELSE Number(value)]
        ELSE [list[i] EXCEPT ![field] = value]]

remainingItems(list, id) == SelectSeq(list, LAMBDA item : item.id # id)

numericOrNull_zero(value) == Number(value)

numericOrNull(value) == IF value = <<>> THEN JsNull ELSE Number(value)

manualFlags_needsReview ==
    [confidence_level |-> "low",
     requires_human_review |-> TRUE,
     validated |-> FALSE]

\* What addItem fixes for every manual item.
manualFlags ==
    [confidence_level |-> "high",
     requires_human_review |-> FALSE,
     validated |-> TRUE]

manualItem(form, clock) ==
    manualFlags @@
    [id |-> manualId(clock),
     item_type |-> form.item_type,
     item_name |-> FirstSegment(Trim(form.item_name_complete)),
     item_name_complete |-> Trim(form.item_name_complete),
     pills_per_dose |-> numericOrNull(form.pills_per_dose),
     doses_per_day |-> numericOrNull(form.doses_per_day),
     treatment_duration_days |-> numericOrNull(form.treatment_duration_days),
     total_pills_required |-> numericOrNull(form.total_pills_required),
     raw_prescription_text |-> manualPrefix \o Trim(form.item_name_complete)]

allValidated_someItem == Len(items) > 0

allValidated_vacuous == \A i \in 1..Len(items) : items[i].validated

allValidated ==
    Len(items) > 0 /\ \A i \in 1..Len(items) : items[i].validated

\* disabled={!prescription.trim()}, disabled={!allValidated} and
\* disabled={!phone.trim() || isLoading} of the three forward buttons.
prescriptionNextDisabled == Trim(prescription) = <<>>

validateNextDisabled == ~allValidated

submitDisabled(isLoading) == Trim(phone) = <<>> \/ isLoading

prescriptionItems(list) ==
    [i \in 1..Len(list) |->
        [text |-> IF list[i].item_name_complete # <<>>
                  THEN list[i].item_name_complete
                  ELSE list[i].raw_prescription_text,
         item_type |-> list[i].item_type,
         item_name |-> list[i].item_name,
         item_name_complete |-> list[i].item_name_complete,
         pills_per_dose |-> list[i].pills_per_dose,
         doses_per_day |-> list[i].doses_per_day,
         treatment_duration_days |-> list[i].treatment_duration_days,
         total_pills_required |-> list[i].total_pills_required,
         raw_prescription_text |-> list[i].raw_prescription_text,
         confidence_level |-> list[i].confidence_level,
         requires_human_review |-> list[i].requires_human_review]]

\* The payload of the variant of the component at lines 907-1691, which sends
\* the source fragment of each item and nothing else.
prescriptionItemsRawText(list) ==
    [i \in 1..Len(list) |-> [text |-> list[i].raw_prescription_text]]

\* Which edit controls a row (or the new item form) of a given type renders.
fieldRendered(itemType, field) ==
    \/ field \in {"item_type", "item_name_complete"}
    \/ field \in {"doses_per_day", "treatment_duration_days"}
         /\ itemType \in {"medication", "food"}
    \/ field \in {"pills_per_dose", "total_pills_required"}
         /\ itemType = "medication"

\* The values the control of a field can deliver.
fieldInputs(field) ==
    IF field = "item_type" THEN ItemTypes
    ELSE IF field = "item_name_complete" THEN DescriptionInputs
    ELSE NumericInputs

EditableFields == {"item_type", "item_name_complete"} \cup NumericFields

(***************************************************************************)
(* The query cache behind hooks/usePrescriptions.ts.  A query key is a     *)
(* sequence; invalidateQueries and removeQueries match every key the given *)
(* key is a prefix of, setQueryData writes the given key alone.  The data  *)
(* of an entry is modelled by the version of what it was read from: the    *)
(* version of the prescription for a detail or reminders entry, the sum of *)
(* all versions for a list.                                                *)
(***************************************************************************)
MaxMutations == 2

PrescriptionIds == {"p1", "p2"}

ListFilters == {"{}", "{status}"}

allKey == <<"prescriptions">>

listsKey == allKey \o <<"list">>

listKey(filters) == listsKey \o <<filters>>

detailsKey == allKey \o <<"detail">>

detailKey(id) == detailsKey \o <<id>>

remindersKey(id) == detailKey(id) \o <<"reminders">>

QueryKeys ==
    {listKey(f) : f \in ListFilters}
    \cup {detailKey(id) : id \in PrescriptionIds}
    \cup {remindersKey(id) : id \in PrescriptionIds}

noEntry == [present |-> FALSE, data |-> 0, isInvalidated |-> FALSE]

emptyCache == [key \in QueryKeys |-> noEntry]

noPrescriptions == [id \in PrescriptionIds |-> [state |-> "none", version |-> 0]]

\* partialMatchKey of the query core: queryKey is a prefix of key.
partialMatchKey(key, queryKey) ==
    /\ Len(queryKey) <= Len(key)
    /\ SubSeq(key, 1, Len(queryKey)) = queryKey

invalidateQueries(cache, queryKey) ==
    [key \in QueryKeys |->
        IF partialMatchKey(key, queryKey) /\ cache[key].present
        THEN [cache[key] EXCEPT !.isInvalidated = TRUE]
        ELSE cache[key]]

removeQueries(cache, queryKey) ==
    [key \in QueryKeys |->
        IF partialMatchKey(key, queryKey) THEN noEntry ELSE cache[key]]

setQueryData(cache, queryKey, data) ==
    [cache EXCEPT ![queryKey] =
        [present |-> TRUE, data |-> data, isInvalidated |-> FALSE]]

RECURSIVE SumVersions(_, _)
SumVersions(srv, ids) ==
    IF ids = {} THEN 0
    ELSE LET id == CHOOSE x \in ids : TRUE
         IN srv[id].version + SumVersions(srv, ids \ {id})

\* What a read of a key returns from the backend.
readOf(srv, key) ==
    IF partialMatchKey(key, listsKey) THEN SumVersions(srv, PrescriptionIds)
    ELSE srv[key[3]].version

(***************************************************************************)
(* api/client.ts.  A body is named by its text; responseJson is what       *)
(* Response.json() makes of it: a JavaScript value, or a SyntaxError.      *)
(***************************************************************************)
Operations ==
    {"healthCheck", "createPrescription", "listPrescriptions", "getPrescription",
     "updatePrescription", "deletePrescription", "updatePrescriptionStatus",
     "getPrescriptionReminders"}

Statuses == {200, 201, 204, 400, 404, 500}

Bodies == {"{error,message}", "{detail}", "{id}", "null", "<html>", ""}

JsUndefined == [type |-> "undefined", fields |-> <<>>]

JsNullValue == [type |-> "null", fields |-> <<>>]

JsString(text) == [type |-> "string", fields |-> <<text>>]

JsObject(fields) == [type |-> "object", fields |-> fields]

responseOk(status) == 200 <= status /\ status <= 299

responseJson(body) ==
    CASE body = "{error,message}" ->
           [throws |-> FALSE,
            value |-> JsObject([error |-> JsString("not_found"),
                                message |-> JsString("Prescription not found")])]
      [] body = "{detail}" ->
           [throws |-> FALSE,
            value |-> JsObject([detail |-> JsString("Not Found")])]
      [] body = "{id}" ->
           [throws |-> FALSE, value |-> JsObject([id |-> JsString("p1")])]
      [] body = "null" -> [throws |-> FALSE, value |-> JsNullValue]
      [] OTHER -> [throws |-> TRUE, value |-> JsUndefined]

unknownError(status) ==
    JsObject([error |-> JsString("unknown_error"), message |-> JsString("HTTP")])

\* value.name in JavaScript: a TypeError on null and undefined, undefined
\* when the property is missing.
property(value, name) ==
    IF value.type \in {"null", "undefined"}
    THEN [throws |-> TRUE, value |-> JsUndefined]
    ELSE IF value.type = "object" /\ name \in DOMAIN value.fields
         THEN [throws |-> FALSE, value |-> value.fields[name]]
         ELSE [throws |-> FALSE, value |-> JsUndefined]

rejected(name, status, error) ==
    [kind |-> "rejected", name |-> name, status |-> status, value |-> error]

resolved(value) ==
    [kind |-> "resolved", name |-> "", status |-> 0, value |-> value]

handleResponse(status, body) ==
    IF ~responseOk(status)
    THEN LET parsed == responseJson(body)
             errorData == IF parsed.throws THEN unknownError(status)
                          ELSE parsed.value
             error == property(errorData, "error")
         IN IF error.throws
            THEN rejected("TypeError", 0, JsUndefined)
            ELSE rejected("ApiError", status, error.value)
    ELSE IF status = 204
         THEN resolved(JsUndefined)
         ELSE LET parsed == responseJson(body)
              IN IF parsed.throws
                 THEN rejected("SyntaxError", 0, JsUndefined)
                 ELSE resolved(parsed.value)

(***************************************************************************)
(* LanguageContext: the translations table (the entries written in ASCII)  *)
(* and t.  A key of Object.prototype is found by translations[key] too,    *)
(* and has no entry per language.                                          *)
(***************************************************************************)
MaxSwitches == 3

Languages == {"en", "es"}

translations ==
    [appName |-> [en |-> "Grandson Pill Pal", es |-> "Grandson Pill Pal"],
     tagline |-> [en |-> "Because grandma's health is no joke",
                  es |-> "Porque la salud de la abuela no es broma"],
     step1of3 |-> [en |-> "Step 1 of 3", es |-> "Paso 1 de 3"],
     step2of3 |-> [en |-> "Step 2 of 3", es |-> "Paso 2 de 3"],
     step3of3 |-> [en |-> "Step 3 of 3", es |-> "Paso 3 de 3"],
     nextValidate |-> [en |-> "Next: Validate Items",
                       es |-> "Siguiente: Validar Items"],
     itemsValidated |-> [en |-> "Items validated", es |-> "Items validados"],
     prescriptionSaved |-> [en |-> "Prescription saved:", es |-> "Receta guardada:"],
     addAnother |-> [en |-> "Add Another Prescription", es |-> "Agregar Otra Receta"],
     language |-> [en |-> "Language", es |-> "Idioma"],
     theme |-> [en |-> "Theme", es |-> "Tema"]]

inheritedKeys == {"toString", "constructor"}

KeyInputs == DOMAIN translations \cup inheritedKeys \cup {"errorExtraction", ""}

t_english(lang, key) ==
    IF key \in DOMAIN translations THEN translations[key]["en"] ELSE key

\* translations[key]?.[language] || key, with the language of the state.
t(lang, key) ==
    LET entry == IF key \in DOMAIN translations THEN translations[key]
                 ELSE IF key \in inheritedKeys THEN [inherited |-> key]
                 ELSE <<>>
        text == IF lang \in DOMAIN entry THEN entry[lang] ELSE ""
    IN IF text = "" THEN key ELSE text

(***************************************************************************)
(* Initial state: the component as mounted.                                *)
(***************************************************************************)
Init ==
    /\ step = "prescription"
    /\ prescription = <<>>
    /\ items = <<>>
    /\ phone = <<>>
    /\ selectedCountry = countries[1]
    /\ newItemForm = initialNewItemState
    /\ showNewItemForm = FALSE
    /\ extractionError = NULL
    /\ pending = <<>>
    /\ emitted = <<>>
    /\ sinkOutcome = <<>>
    /\ now = 0
    /\ edits = 0
    /\ submitted = FALSE
    /\ deleted = {}
    /\ server = noPrescriptions
    /\ queryCache = emptyCache
    /\ response = <<>>
    /\ settlement = <<>>
    /\ language = "en"
    /\ languageLog = <<>>
    /\ rendered = <<>>

\* An event that does not call onSubmit: nothing outside the form changes.
NoSubmit ==
    /\ emitted' = <<>>
    /\ sinkOutcome' = <<>>
    /\ UNCHANGED outsideForm

\* An event whose handler returns without doing anything.
NoEffect ==
    /\ NoSubmit
    /\ UNCHANGED <<step, prescription, items, phone, selectedCountry,
                   newItemForm, showNewItemForm, extractionError, pending, now, edits>>

(***************************************************************************)
(* Step "prescription".                                                    *)
(***************************************************************************)
setPrescription_anyStep(value) ==
    /\ step \in {"prescription", "validate"}
    /\ prescription' = value
    /\ NoSubmit
    /\ UNCHANGED <<step, items, phone, selectedCountry, newItemForm,
                   showNewItemForm, extractionError, pending, now,
                   edits>>

setPrescription(value) ==
    /\ step = "prescription"
    /\ prescription' = value
    /\ NoSubmit
    /\ UNCHANGED <<step, items, phone, selectedCountry, newItemForm,
                   showNewItemForm, extractionError, pending, now,
                   edits>>

handlePrescriptionNext_noGate ==
    /\ step = "prescription"
    /\ IF Trim(prescription) = <<>>
       THEN NoEffect
       ELSE /\ extractionError' = NULL
            /\ pending' = Append(pending, prescription)
            /\ NoSubmit
            /\ UNCHANGED <<step, prescription, items, phone, selectedCountry,
                           newItemForm, showNewItemForm, now, edits>>

handlePrescriptionNext_noCall ==
    /\ step = "prescription"
    /\ IF Trim(prescription) = <<>>
       THEN NoEffect
       ELSE /\ extractionError' = NULL
            /\ step' = "extracting"
            /\ NoSubmit
            /\ UNCHANGED <<prescription, items, phone, selectedCountry,
                           newItemForm, showNewItemForm, pending, now, edits>>

handlePrescriptionNext_keepsError ==
    /\ step = "prescription"
    /\ IF Trim(prescription) = <<>>
       THEN NoEffect
       ELSE /\ step' = "extracting"
            /\ pending' = Append(pending, prescription)
            /\ NoSubmit
            /\ UNCHANGED <<prescription, items, phone, selectedCountry,
                           newItemForm, showNewItemForm, extractionError,
                           now, edits>>

\* handlePrescriptionNext up to its await.
handlePrescriptionNext ==
    /\ step = "prescription"
    /\ IF Trim(prescription) = <<>>
       THEN NoEffect
       ELSE /\ extractionError' = NULL
            /\ step' = "extracting"
            /\ pending' = Append(pending, prescription)
            /\ NoSubmit
            /\ UNCHANGED <<prescription, items, phone, selectedCountry,
                           newItemForm, showNewItemForm, now, edits>>

extractionSettles_uncaught(outcome, clock) ==
    /\ pending # <<>>
    /\ pending' = Tail(pending)
    /\ LET result == extractPrescription(outcome) IN
       IF ~result.thrown /\ result.body.hasItems
       THEN /\ items' = validatedItems(result.body.items, clock)
            /\ now' = clock
            /\ step' = "validate"
            /\ UNCHANGED extractionError
       ELSE IF result.thrown
       THEN /\ extractionError' = errorExtraction
            /\ step' = "prescription"
            /\ UNCHANGED <<items, now>>
       ELSE UNCHANGED <<step, items, now, extractionError>>
    /\ NoSubmit
    /\ UNCHANGED <<prescription, phone, selectedCountry, newItemForm,
                   showNewItemForm, edits>>

extractionSettles_retries(outcome, clock) ==
    /\ pending # <<>>
    /\ LET result == extractPrescription(outcome) IN
       IF ~result.thrown /\ result.body.hasItems
       THEN /\ items' = validatedItems(result.body.items, clock)
            /\ now' = clock
            /\ step' = "validate"
            /\ pending' = Tail(pending)
            /\ UNCHANGED extractionError
       ELSE /\ extractionError' = errorExtraction
            /\ pending' = Append(Tail(pending), prescription)
            /\ UNCHANGED <<step, items, now>>
    /\ NoSubmit
    /\ UNCHANGED <<prescription, phone, selectedCountry, newItemForm,
                   showNewItemForm, edits>>

extractionSettles_clearsItems(outcome, clock) ==
    /\ pending # <<>>
    /\ pending' = Tail(pending)
    /\ LET result == extractPrescription(outcome) IN
       IF ~result.thrown /\ result.body.hasItems
       THEN /\ items' = validatedItems(result.body.items, clock)
            /\ now' = clock
            /\ step' = "validate"
            /\ UNCHANGED extractionError
       ELSE /\ extractionError' = errorExtraction
            /\ step' = "prescription"
            /\ items' = <<>>
            /\ UNCHANGED now
    /\ NoSubmit
    /\ UNCHANGED <<prescription, phone, selectedCountry, newItemForm,
                   showNewItemForm, edits>>

\* handlePrescriptionNext after its await: the try body or the catch.
extractionSettles(outcome, clock) ==
    /\ pending # <<>>
    /\ pending' = Tail(pending)
    /\ LET result == extractPrescription(outcome) IN
       IF ~result.thrown /\ result.body.hasItems
       THEN /\ items' = validatedItems(result.body.items, clock)
            /\ now' = clock
            /\ step' = "validate"
            /\ UNCHANGED extractionError
       ELSE /\ extractionError' = errorExtraction
            /\ step' = "prescription"
            /\ UNCHANGED <<items, now>>
    /\ NoSubmit
    /\ UNCHANGED <<prescription, phone, selectedCountry, newItemForm,
                   showNewItemForm, edits>>

(***************************************************************************)
(* Step "validate".                                                        *)
(***************************************************************************)
\* The toggle button of row i.
toggleItem(i) ==
    /\ step = "validate"
    /\ i \in 1..Len(items)
    /\ items' = toggledItems(items, items[i].id)
    /\ NoSubmit
    /\ UNCHANGED <<step, prescription, phone, selectedCountry, newItemForm,
                   showNewItemForm, extractionError, pending, now,
                   edits>>

\* An edit control of row i.
updateItemField(i, field, value) ==
    /\ step = "validate"
    /\ i \in 1..Len(items)
    /\ fieldRendered(items[i].item_type, field)
    /\ edits < MaxEdits
    /\ edits' = edits + 1
    /\ items' = updatedItems(items, items[i].id, field, value)
    /\ NoSubmit
    /\ UNCHANGED <<step, prescription, phone, selectedCountry, newItemForm,
                   showNewItemForm, extractionError, pending, now>>

\* The delete button of row i.
removeItem(i) ==
    /\ step = "validate"
    /\ i \in 1..Len(items)
    /\ items' = remainingItems(items, items[i].id)
    /\ NoSubmit
    /\ UNCHANGED <<step, prescription, phone, selectedCountry, newItemForm,
                   showNewItemForm, extractionError, pending, now,
                   edits>>

openNewItemForm ==
    /\ step = "validate"
    /\ ~showNewItemForm
    /\ showNewItemForm' = TRUE
    /\ NoSubmit
    /\ UNCHANGED <<step, prescription, items, phone, selectedCountry,
                   newItemForm, extractionError, pending, now,
                   edits>>

cancelNewItemForm ==
    /\ step = "validate"
    /\ showNewItemForm
    /\ showNewItemForm' = FALSE
    /\ newItemForm' = initialNewItemState
    /\ NoSubmit
    /\ UNCHANGED <<step, prescription, items, phone, selectedCountry,
                   extractionError, pending, now, edits>>

\* An input of the new item form.
updateNewItemField(field, value) ==
    /\ step = "validate"
    /\ showNewItemForm
    /\ fieldRendered(newItemForm.item_type, field)
    /\ edits < MaxEdits
    /\ edits' = edits + 1
    /\ newItemForm' = [newItemForm EXCEPT ![field] = value]
    /\ NoSubmit
    /\ UNCHANGED <<step, prescription, items, phone, selectedCountry,
                   showNewItemForm, extractionError, pending, now>>

addItem_prepends(clock) ==
    /\ step = "validate"
    /\ showNewItemForm
    /\ Len(items) < MaxItems
    /\ IF Trim(newItemForm.item_name_complete) # <<>>
       THEN /\ items' = <<manualItem(newItemForm, clock)>> \o items
            /\ now' = clock
            /\ newItemForm' = initialNewItemState
            /\ showNewItemForm' = FALSE
            /\ NoSubmit
            /\ UNCHANGED <<step, prescription, phone, selectedCountry,
                           extractionError, pending, edits>>
       ELSE NoEffect

addItem(clock) ==
    /\ step = "validate"
    /\ showNewItemForm
    /\ Len(items) < MaxItems
    /\ IF Trim(newItemForm.item_name_complete) # <<>>
       THEN /\ items' = Append(items, manualItem(newItemForm, clock))
            /\ now' = clock
            /\ newItemForm' = initialNewItemState
            /\ showNewItemForm' = FALSE
            /\ NoSubmit
            /\ UNCHANGED <<step, prescription, phone, selectedCountry,
                           extractionError, pending, edits>>
       ELSE NoEffect

editPrescription_clearsItems ==
    /\ step = "validate"
    /\ step' = "prescription"
    /\ items' = <<>>
    /\ NoSubmit
    /\ UNCHANGED <<prescription, phone, selectedCountry, newItemForm,
                   showNewItemForm, extractionError, pending, now,
                   edits>>

editPrescription ==
    /\ step = "validate"
    /\ step' = "prescription"
    /\ NoSubmit
    /\ UNCHANGED <<prescription, items, phone, selectedCountry, newItemForm,
                   showNewItemForm, extractionError, pending, now,
                   edits>>

handleValidateNext_reportsError ==
    /\ step = "validate"
    /\ IF allValidated
       THEN /\ step' = "phone"
            /\ NoSubmit
            /\ UNCHANGED <<prescription, items, phone, selectedCountry,
                           newItemForm, showNewItemForm, extractionError,
                           pending, now, edits>>
       ELSE /\ extractionError' = errorExtraction
            /\ NoSubmit
            /\ UNCHANGED <<step, prescription, items, phone, selectedCountry,
                           newItemForm, showNewItemForm, pending, now, edits>>

handleValidateNext ==
    /\ step = "validate"
    /\ IF allValidated
       THEN /\ step' = "phone"
            /\ NoSubmit
            /\ UNCHANGED <<prescription, items, phone, selectedCountry,
                           newItemForm, showNewItemForm, extractionError,
                           pending, now, edits>>
       ELSE NoEffect

(***************************************************************************)
(* Step "phone".                                                           *)
(***************************************************************************)
setPhone(value) ==
    /\ step = "phone"
    /\ phone' = value
    /\ NoSubmit
    /\ UNCHANGED <<step, prescription, items, selectedCountry, newItemForm,
                   showNewItemForm, extractionError, pending, now,
                   edits>>

selectCountry_fallsBack(code) ==
    /\ step = "phone"
    /\ IF \E k \in 1..Len(countries) : countries[k].code = code
       THEN LET k == CHOOSE j \in 1..Len(countries) :
                        /\ countries[j].code = code
                        /\ \A h \in 1..(j - 1) : countries[h].code # code
            IN selectedCountry' = countries[k]
       ELSE selectedCountry' = countries[1]
    /\ NoSubmit
    /\ UNCHANGED <<step, prescription, items, phone, newItemForm,
                   showNewItemForm, extractionError, pending, now,
                   edits>>

\* The country select: countries.find(c => c.code === value), the first match.
selectCountry(code) ==
    /\ step = "phone"
    /\ IF \E k \in 1..Len(countries) : countries[k].code = code
       THEN LET k == CHOOSE j \in 1..Len(countries) :
                        /\ countries[j].code = code
                        /\ \A h \in 1..(j - 1) : countries[h].code # code
            IN selectedCountry' = countries[k]
       ELSE UNCHANGED selectedCountry
    /\ NoSubmit
    /\ UNCHANGED <<step, prescription, items, phone, newItemForm,
                   showNewItemForm, extractionError, pending, now,
                   edits>>

editItems_resetsFlags ==
    /\ step = "phone"
    /\ step' = "validate"
    /\ items' = [i \in 1..Len(items) |-> [items[i] EXCEPT !.validated = FALSE]]
    /\ NoSubmit
    /\ UNCHANGED <<prescription, phone, selectedCountry, newItemForm,
                   showNewItemForm, extractionError, pending, now,
                   edits>>

editItems_toPrescription ==
    /\ step = "phone"
    /\ step' = "prescription"
    /\ NoSubmit
    /\ UNCHANGED <<prescription, items, phone, selectedCountry, newItemForm,
                   showNewItemForm, extractionError, pending, now,
                   edits>>

editItems ==
    /\ step = "phone"
    /\ step' = "validate"
    /\ NoSubmit
    /\ UNCHANGED <<prescription, items, phone, selectedCountry, newItemForm,
                   showNewItemForm, extractionError, pending, now,
                   edits>>

handleSubmit_ignoresLoading(isLoading) ==
    /\ step = "phone"
    /\ IF Trim(phone) # <<>>
       THEN /\ emitted' = <<[items |-> prescriptionItems(items),
                             phone |-> fullPhoneNumber]>>
            /\ sinkOutcome' = <<>>
            /\ UNCHANGED <<step, prescription, items, phone, selectedCountry,
                           newItemForm, showNewItemForm, extractionError,
                           pending, now, edits>>
            /\ UNCHANGED outsideForm
       ELSE NoEffect

\* The submit button.  isLoading is the prop the parent rendered the form
\* with: the component keeps no copy of it, each activation reads the
\* parent's current value.
handleSubmit(isLoading) ==
    /\ step = "phone"
    /\ IF Trim(phone) # <<>> /\ ~isLoading
       THEN /\ emitted' = <<[items |-> prescriptionItems(items),
                             phone |-> fullPhoneNumber]>>
            /\ sinkOutcome' = <<>>
            /\ UNCHANGED <<step, prescription, items, phone, selectedCountry,
                           newItemForm, showNewItemForm, extractionError,
                           pending, now, edits>>
            /\ UNCHANGED outsideForm
       ELSE NoEffect

\* What Date.now() can return: the clock never runs backwards, and two
\* readings can fall in the same millisecond.
ClockReadings == now..MaxClock

Next ==
    \/ \E value \in PrescriptionInputs : setPrescription(value)
    \/ handlePrescriptionNext
    \/ \E outcome \in FetchOutcomes, clock \in ClockReadings :
          extractionSettles(outcome, clock)
    \/ \E i \in 1..MaxItems : toggleItem(i)
    \/ \E i \in 1..MaxItems, field \in EditableFields :
          \E value \in fieldInputs(field) : updateItemField(i, field, value)
    \/ \E i \in 1..MaxItems : removeItem(i)
    \/ openNewItemForm
    \/ cancelNewItemForm
    \/ \E field \in EditableFields :
          \E value \in fieldInputs(field) : updateNewItemField(field, value)
    \/ \E clock \in ClockReadings : addItem(clock)
    \/ editPrescription
    \/ handleValidateNext
    \/ \E value \in PhoneInputs : setPhone(value)
    \/ \E code \in CountryInputs : selectCountry(code)
    \/ editItems
    \/ \E isLoading \in BOOLEAN : handleSubmit(isLoading)

Spec == Init /\ [][Next]_vars

\* The same component when every call of the extraction service that was
\* started settles at some time.
FairSpec ==
    /\ Spec
    /\ WF_vars(\E outcome \in FetchOutcomes, clock \in ClockReadings :
                  extractionSettles(outcome, clock))

(***************************************************************************)
(* The phone input is a free text field (type="tel" constrains nothing):   *)
(* the same component with more of what can be typed into it.              *)
(***************************************************************************)
OtherPhoneInputs == {<<"x">>, <<"5", "x">>}

NextAnyPhone ==
    \/ Next
    \/ \E value \in OtherPhoneInputs : setPhone(value)

SpecAnyPhone == Init /\ [][NextAnyPhone]_vars

(***************************************************************************)
(* The sink: onSubmit is called and its return value is dropped.  When the *)
(* parent's work for that call ends, well or badly, no code of the         *)
(* component runs.                                                         *)
(***************************************************************************)
sinkSettles_retries(ok) ==
    /\ emitted # <<>>
    /\ sinkOutcome = <<>>
    /\ sinkOutcome' = <<ok>>
    /\ emitted' = IF ok THEN emitted ELSE emitted \o emitted
    /\ UNCHANGED <<step, prescription, items, phone, selectedCountry,
                   newItemForm, showNewItemForm, extractionError, pending,
                   now, edits>>
    /\ UNCHANGED outsideForm

sinkSettles(ok) ==
    /\ emitted # <<>>
    /\ sinkOutcome = <<>>
    /\ sinkOutcome' = <<ok>>
    /\ UNCHANGED <<step, prescription, items, phone, selectedCountry,
                   newItemForm, showNewItemForm, extractionError, pending,
                   emitted, now, edits>>
    /\ UNCHANGED outsideForm

NextSink ==
    \/ Next
    \/ \E ok \in BOOLEAN : sinkSettles(ok)

SpecSink == Init /\ [][NextSink]_vars

(***************************************************************************)
(* The variant of the component at lines 907-1691 of the same file.  Its   *)
(* handlers up to the phone step are those above; it has no country select *)
(* and its submit handler sends the raw text and the phone as typed.       *)
(***************************************************************************)
handleSubmitRawText(isLoading) ==
    /\ step = "phone"
    /\ IF Trim(phone) # <<>> /\ ~isLoading
       THEN /\ emitted' = <<[items |-> prescriptionItemsRawText(items),
                             phone |-> phone]>>
            /\ sinkOutcome' = <<>>
            /\ UNCHANGED <<step, prescription, items, phone, selectedCountry,
                           newItemForm, showNewItemForm, extractionError,
                           pending, now, edits>>
            /\ UNCHANGED outsideForm
       ELSE NoEffect

NextRawText ==
    \/ \E value \in PrescriptionInputs : setPrescription(value)
    \/ handlePrescriptionNext
    \/ \E outcome \in FetchOutcomes, clock \in ClockReadings :
          extractionSettles(outcome, clock)
    \/ \E i \in 1..MaxItems : toggleItem(i)
    \/ \E i \in 1..MaxItems, field \in EditableFields :
          \E value \in fieldInputs(field) : updateItemField(i, field, value)
    \/ \E i \in 1..MaxItems : removeItem(i)
    \/ openNewItemForm
    \/ cancelNewItemForm
    \/ \E field \in EditableFields :
          \E value \in fieldInputs(field) : updateNewItemField(field, value)
    \/ \E clock \in ClockReadings : addItem(clock)
    \/ editPrescription
    \/ handleValidateNext
    \/ \E value \in PhoneInputs : setPhone(value)
    \/ editItems
    \/ \E isLoading \in BOOLEAN : handleSubmitRawText(isLoading)

SpecRawText == Init /\ [][NextRawText]_vars

(***************************************************************************)
(* The steps of the form but the deletion of a row and the submit, which   *)
(* the specifications below take in their own way.                         *)
(***************************************************************************)
FormStepKeeping ==
    \/ \E value \in PrescriptionInputs : setPrescription(value)
    \/ handlePrescriptionNext
    \/ \E outcome \in FetchOutcomes, clock \in ClockReadings :
          extractionSettles(outcome, clock)
    \/ \E i \in 1..MaxItems : toggleItem(i)
    \/ \E i \in 1..MaxItems, field \in EditableFields :
          \E value \in fieldInputs(field) : updateItemField(i, field, value)
    \/ openNewItemForm
    \/ cancelNewItemForm
    \/ \E field \in EditableFields :
          \E value \in fieldInputs(field) : updateNewItemField(field, value)
    \/ \E clock \in ClockReadings : addItem(clock)
    \/ editPrescription
    \/ handleValidateNext
    \/ \E value \in PhoneInputs : setPhone(value)
    \/ \E code \in CountryInputs : selectCountry(code)
    \/ editItems

FormStep ==
    \/ FormStepKeeping
    \/ \E i \in 1..MaxItems : removeItem(i)

(***************************************************************************)
(* The form under the page pages/Index.tsx, which mounts it while          *)
(* submitted is false and the success screen otherwise.  An unmounted form *)
(* has no state: the variables of the form keep their last values until    *)
(* the form is mounted again, when every useState starts from its initial  *)
(* value.  phoneNumber of the page only feeds the success screen and is    *)
(* left out.                                                               *)
(***************************************************************************)
\* handleSubmit of the form calling handleSubmit of the page.
submitToIndex(isLoading) ==
    /\ ~submitted
    /\ step = "phone"
    /\ IF Trim(phone) # <<>> /\ ~isLoading
       THEN /\ emitted' = <<[items |-> prescriptionItems(items),
                             phone |-> fullPhoneNumber]>>
            /\ sinkOutcome' = <<>>
            /\ submitted' = TRUE
            /\ UNCHANGED <<step, prescription, items, phone, selectedCountry,
                           newItemForm, showNewItemForm, extractionError,
                           pending, now, edits, deleted, cacheVars, clientVars, languageVars>>
       ELSE NoEffect

handleAddAnother_keepsForm ==
    /\ submitted
    /\ submitted' = FALSE
    /\ emitted' = <<>>
    /\ sinkOutcome' = <<>>
    /\ UNCHANGED <<step, prescription, items, phone, selectedCountry,
                   newItemForm, showNewItemForm, extractionError, pending,
                   now, edits, deleted, cacheVars, clientVars, languageVars>>

\* The button of the success screen: the page mounts a new form.
handleAddAnother ==
    /\ submitted
    /\ submitted' = FALSE
    /\ step' = "prescription"
    /\ prescription' = <<>>
    /\ items' = <<>>
    /\ phone' = <<>>
    /\ selectedCountry' = countries[1]
    /\ newItemForm' = initialNewItemState
    /\ showNewItemForm' = FALSE
    /\ extractionError' = NULL
    /\ emitted' = <<>>
    /\ sinkOutcome' = <<>>
    /\ UNCHANGED <<pending, now, edits, deleted, cacheVars, clientVars, languageVars>>

NextIndex ==
    \/ ~submitted /\ FormStep
    \/ \E isLoading \in BOOLEAN : submitToIndex(isLoading)
    \/ handleAddAnother

SpecIndex == Init /\ [][NextIndex]_vars

(***************************************************************************)
(* The form with the record of the ids of the rows deleted so far.         *)
(***************************************************************************)
removeItemRecorded(i) ==
    /\ step = "validate"
    /\ i \in 1..Len(items)
    /\ items' = remainingItems(items, items[i].id)
    /\ deleted' = deleted \cup {items[i].id}
    /\ emitted' = <<>>
    /\ sinkOutcome' = <<>>
    /\ UNCHANGED <<step, prescription, phone, selectedCountry, newItemForm,
                   showNewItemForm, extractionError, pending, now,
                   edits, submitted, cacheVars, clientVars, languageVars>>

NextDeleted ==
    \/ FormStepKeeping
    \/ \E i \in 1..MaxItems : removeItemRecorded(i)
    \/ \E isLoading \in BOOLEAN : handleSubmit(isLoading)

SpecDeleted == Init /\ [][NextDeleted]_vars

(***************************************************************************)
(* The hooks of hooks/usePrescriptions.ts: the queries, and the mutations  *)
(* with their onSuccess.  A mutation that fails calls no onSuccess and     *)
(* changes nothing.                                                        *)
(***************************************************************************)
CacheFrame == UNCHANGED <<formVars, submitted, deleted, clientVars, languageVars>>

\* usePrescriptions, usePrescription, usePrescriptionReminders: the queryFn
\* of a key resolves and its data is stored.
queryFetched(key) ==
    /\ key \in QueryKeys
    /\ partialMatchKey(key, detailsKey) => server[key[3]].state = "live"
    /\ queryCache' = setQueryData(queryCache, key, readOf(server, key))
    /\ UNCHANGED server
    /\ CacheFrame

useCreatePrescription(id, ok) ==
    /\ server[id].state = "none"
    /\ SumVersions(server, PrescriptionIds) < MaxMutations
    /\ IF ok
       THEN /\ server' = [server EXCEPT ![id] = [state |-> "live", version |-> 1]]
            /\ queryCache' = invalidateQueries(queryCache, listsKey)
       ELSE UNCHANGED <<server, queryCache>>
    /\ CacheFrame

useUpdatePrescription(id, ok) ==
    /\ server[id].state = "live"
    /\ SumVersions(server, PrescriptionIds) < MaxMutations
    /\ IF ok
       THEN /\ server' = [server EXCEPT ![id].version = @ + 1]
            /\ queryCache' =
                  invalidateQueries(
                     setQueryData(queryCache, detailKey(id), server[id].version + 1),
                     listsKey)
       ELSE UNCHANGED <<server, queryCache>>
    /\ CacheFrame

useDeletePrescription(id, ok) ==
    /\ server[id].state = "live"
    /\ SumVersions(server, PrescriptionIds) < MaxMutations
    /\ IF ok
       THEN /\ server' = [server EXCEPT ![id] =
                             [state |-> "gone", version |-> @.version + 1]]
            /\ queryCache' =
                  invalidateQueries(removeQueries(queryCache, detailKey(id)), listsKey)
       ELSE UNCHANGED <<server, queryCache>>
    /\ CacheFrame

useUpdatePrescriptionStatus(id, ok) ==
    /\ server[id].state = "live"
    /\ SumVersions(server, PrescriptionIds) < MaxMutations
    /\ IF ok
       THEN /\ server' = [server EXCEPT ![id].version = @ + 1]
            /\ queryCache' =
                  invalidateQueries(
                     setQueryData(queryCache, detailKey(id), server[id].version + 1),
                     listsKey)
       ELSE UNCHANGED <<server, queryCache>>
    /\ CacheFrame

NextCache ==
    \/ \E key \in QueryKeys : queryFetched(key)
    \/ \E id \in PrescriptionIds, ok \in BOOLEAN : useCreatePrescription(id, ok)
    \/ \E id \in PrescriptionIds, ok \in BOOLEAN : useUpdatePrescription(id, ok)
    \/ \E id \in PrescriptionIds, ok \in BOOLEAN : useDeletePrescription(id, ok)
    \/ \E id \in PrescriptionIds, ok \in BOOLEAN :
          useUpdatePrescriptionStatus(id, ok)

SpecCache == Init /\ [][NextCache]_vars

(***************************************************************************)
(* An operation of api: fetch resolves with a Response, then               *)
(* handleResponse settles the promise the operation returned.              *)
(***************************************************************************)
ClientFrame == UNCHANGED <<formVars, submitted, deleted, cacheVars, languageVars>>

fetchResolves(operation, status, body) ==
    /\ response = <<>> \/ settlement # <<>>
    /\ response' = <<[operation |-> operation, status |-> status, body |-> body]>>
    /\ settlement' = <<>>
    /\ ClientFrame

handleResponseSettles ==
    /\ response # <<>>
    /\ settlement = <<>>
    /\ settlement' = <<handleResponse(response[1].status, response[1].body)>>
    /\ UNCHANGED response
    /\ ClientFrame

NextClient ==
    \/ \E operation \in Operations, status \in Statuses, body \in Bodies :
          fetchResolves(operation, status, body)
    \/ handleResponseSettles

SpecClient == Init /\ [][NextClient]_vars

(***************************************************************************)
(* The LanguageProvider: setLanguage from the toggle, and a component      *)
(* rendering t(key).  Changing the language renders the consumers again.   *)
(***************************************************************************)
LanguageFrame == UNCHANGED <<formVars, submitted, deleted, cacheVars, clientVars>>

setLanguage(lang) ==
    /\ Len(languageLog) < MaxSwitches
    /\ language' = lang
    /\ languageLog' = Append(languageLog, lang)
    /\ rendered' = [k \in DOMAIN rendered |->
                       [key |-> rendered[k].key, text |-> t(lang, rendered[k].key)]]
    /\ LanguageFrame

renders(key) ==
    /\ rendered' = <<[key |-> key, text |-> t(language, key)]>>
    /\ UNCHANGED <<language, languageLog>>
    /\ LanguageFrame

NextLanguage ==
    \/ \E lang \in Languages : setLanguage(lang)
    \/ \E key \in KeyInputs : renders(key)

SpecLanguage == Init /\ [][NextLanguage]_vars

(***************************************************************************)
(* A session in which the user has already added one manual item to an     *)
(* empty extraction result, with the budget of field edits counted from    *)
(* there.                                                                  *)
(***************************************************************************)
InitAfterAdd ==
    /\ step = "validate"
    /\ prescription = <<" ", "a">>
    /\ items = <<manualItem([initialNewItemState EXCEPT
                                !.item_name_complete = <<" ", "B", " ", "c">>], 0)>>
    /\ phone = <<>>
    /\ selectedCountry = countries[1]
    /\ newItemForm = initialNewItemState
    /\ showNewItemForm = FALSE
    /\ extractionError = NULL
    /\ pending = <<>>
    /\ emitted = <<>>
    /\ sinkOutcome = <<>>
    /\ now = 0
    /\ edits = 0
    /\ submitted = FALSE
    /\ deleted = {}
    /\ server = noPrescriptions
    /\ queryCache = emptyCache
    /\ response = <<>>
    /\ settlement = <<>>
    /\ language = "en"
    /\ languageLog = <<>>
    /\ rendered = <<>>

SpecAfterAdd == InitAfterAdd /\ [][Next]_vars

(***************************************************************************)
(* Properties.                                                             *)
(***************************************************************************)
EveryItemValidated(list) ==
    Len(list) > 0 /\ \A i \in 1..Len(list) : list[i].validated = TRUE

DistinctIds(list) ==
    \A i, j \in 1..Len(list) : i # j => list[i].id # list[j].id

\* A fetch outcome that resolves to a body with an items list.
Succeeds(outcome) ==
    /\ outcome.kind = "response"
    /\ outcome.ok
    /\ outcome.json
    /\ outcome.hasItems

\* A fetch outcome that is a thrown error or a non-OK response.
Fails(outcome) ==
    outcome.kind = "rejected" \/ (outcome.kind = "response" /\ ~outcome.ok)

\* A string that is empty or made of white space only.
Blank(s) == \A i \in 1..Len(s) : s[i] \in {" ", "\t", "\n"}

\* The fields of a wizard item that come from the candidate.
CandidateOf(item) ==
    [f \in DOMAIN item \ {"id", "validated"} |-> item[f]]

\* The clock reading a settling of the extraction call can have made: the
\* one it leaves in now (a failed call reads no clock and leaves now alone).
SettledAt == ClockReadings \cap {now'}

\* C1: whenever the step is phone, and whenever onSubmit has just been
\* called, the item list is non-empty and every item is validated; the
\* wizard is never past the validate step with an unvalidated item.
C1_PastValidateAllValidated ==
    /\ step = "phone" => EveryItemValidated(items)
    /\ emitted # <<>> =>
          /\ step = "phone"
          /\ EveryItemValidated(items)
          /\ \A k \in 1..Len(emitted) : Len(emitted[k].items) = Len(items)

C1_Witness ==
    /\ emitted # <<>>
    /\ Len(items) = 2
    /\ edits > 0

\* C2: in the validate step the next control is enabled, and the step to
\* phone can be taken, exactly when the list is non-empty and every item is
\* validated; for the empty list it is disabled.
C2_NextEnabledIffAllValidated ==
    step = "validate" =>
        /\ ~validateNextDisabled <=> EveryItemValidated(items)
        /\ (ENABLED (handleValidateNext /\ step' = "phone"))
              <=> EveryItemValidated(items)
        /\ items = <<>> => validateNextDisabled

C2_Witness ==
    /\ step = "validate"
    /\ items = <<>>
    /\ validateNextDisabled

\* C3: in every reachable state the items of the list have pairwise
\* distinct ids.
C3_IdsPairwiseDistinct == DistinctIds(items)

\* C4: when the extraction started from the prescription step answers with
\* N candidates, the wizard enters validate with exactly N items, in the
\* order of the response, none validated, with pairwise distinct ids.
C4_ExtractionSeedsItems ==
    [][pending # <<>> =>
       \A outcome \in FetchOutcomes, clock \in SettledAt :
          (Succeeds(outcome) /\ extractionSettles(outcome, clock)) =>
              /\ step' = "validate"
              /\ Len(items') = Len(outcome.items)
              /\ \A i \in 1..Len(items') :
                    /\ CandidateOf(items'[i]) = outcome.items[i]
                    /\ items'[i].validated = FALSE
              /\ DistinctIds(items')]_vars

C4_Witness ==
    /\ step = "validate"
    /\ Len(items) = 2
    /\ CandidateOf(items[1]) = candidateA
    /\ CandidateOf(items[2]) = candidateF
    /\ \A i \in 1..2 : ~items[i].validated
    /\ edits = 0

\* C5: when the extraction call fails (a thrown error or a non-OK response)
\* the step goes from extracting back to prescription, the prescription text
\* is the text that was typed before the call, and the error indicator is
\* set.
C5_FailureReturnsToPrescription ==
    [][pending # <<>> =>
       \A outcome \in FetchOutcomes, clock \in SettledAt :
          (Fails(outcome) /\ extractionSettles(outcome, clock)) =>
              /\ step = "extracting"
              /\ step' = "prescription"
              /\ prescription' = Head(pending)
              /\ prescription' = prescription
              /\ extractionError' # NULL]_vars

C5_Witness ==
    /\ step = "prescription"
    /\ extractionError # NULL
    /\ prescription = <<" ", "a">>
    /\ pending = <<>>

\* C6: while the prescription text is empty or white space only, the next
\* control is disabled, no extraction call is made and the step stays
\* prescription; handlePrescriptionNext changes nothing.
C6_BlankTextNeverExtracts ==
    /\ [](\A k \in 1..Len(pending) : ~Blank(pending[k]))
    /\ []((step = "prescription" /\ Blank(prescription))
             => prescriptionNextDisabled)
    /\ [][(step = "prescription" /\ Blank(prescription)) =>
             /\ step' = "prescription"
             /\ pending' = pending
             /\ (handlePrescriptionNext =>
                    UNCHANGED <<step, prescription, items, phone,
                                selectedCountry, newItemForm, showNewItemForm,
                                extractionError, pending, now, edits>>)]_vars

C6_Witness ==
    /\ step = "prescription"
    /\ prescription = <<" ", "\n">>
    /\ pending = <<>>

\* C7: toggling row i flips validated on row i only; every other item, all
\* other fields, the length and the order of the list are unchanged.
C7_ToggleFlipsOnlyRowI ==
    [][\A i \in 1..MaxItems :
          toggleItem(i) =>
              /\ Len(items') = Len(items)
              /\ \A j \in 1..Len(items) :
                    items'[j] = IF j = i
                                THEN [items[j] EXCEPT !.validated = ~items[j].validated]
                                ELSE items[j]]_vars

\* C8: deleting row i removes exactly one item: the length decreases by one
\* and the other items keep their ids, contents and relative order.
C8_RemoveDeletesOnlyRowI ==
    [][\A i \in 1..MaxItems :
          removeItem(i) =>
              /\ Len(items') = Len(items) - 1
              /\ items' = SubSeq(items, 1, i - 1) \o SubSeq(items, i + 1, Len(items))]_vars

\* C9: adding a manual item whose description is non-empty after trimming
\* appends exactly one item, with validated = true, confidence high and
\* requiresReview = false.
C9_ManualItemAutoValidated ==
    [][\A clock \in ClockReadings :
          (addItem(clock) /\ ~Blank(newItemForm.item_name_complete)) =>
              /\ Len(items') = Len(items) + 1
              /\ SubSeq(items', 1, Len(items)) = items
              /\ items'[Len(items')].validated = TRUE
              /\ items'[Len(items')].confidence_level = "high"
              /\ items'[Len(items')].requires_human_review = FALSE]_vars

C9_Witness ==
    /\ step = "validate"
    /\ Len(items) = 2
    /\ items[2].id = manualId(now)
    /\ items[2].validated
    /\ ~items[1].validated

\* C10: each activation of submit in the phone step with a non-blank phone
\* and isLoading false calls onSubmit exactly once, also right after an
\* earlier call, with one entry per wizard item in list order and the phone
\* made of the selected country's dial code, a space and the phone as typed.
C10_SubmitCallsSinkOnce ==
    [][(handleSubmit(FALSE) /\ ~Blank(phone)) =>
          /\ Len(emitted') = 1
          /\ emitted'[1].phone = selectedCountry.dialCode \o <<" ">> \o phone
          /\ \E k \in 1..Len(countries) : selectedCountry = countries[k]
          /\ Len(emitted'[1].items) = Len(items)
          /\ \A i \in 1..Len(items) :
                /\ emitted'[1].items[i].item_name = items[i].item_name
                /\ emitted'[1].items[i].raw_prescription_text =
                      items[i].raw_prescription_text
                /\ emitted'[1].items[i].item_name_complete =
                      items[i].item_name_complete]_vars

C10_Witness ==
    /\ emitted # <<>>
    /\ selectedCountry.code = "US"
    /\ emitted[1].phone = <<"+", "1", " ", "5", " ", "1">>
    /\ Len(emitted[1].items) = 2

\* C11: onSubmit is never called while the phone is empty or white space
\* only, and never by an activation made while isLoading is true; in both
\* cases the submit control is disabled.
C11_SubmitNeedsPhoneAndNoLoading ==
    /\ [](emitted # <<>> => (step = "phone" /\ ~Blank(phone)))
    /\ [](\A isLoading \in BOOLEAN :
            (step = "phone" /\ (Blank(phone) \/ isLoading))
                => submitDisabled(isLoading))
    /\ [][\A isLoading \in BOOLEAN :
             (handleSubmit(isLoading) /\ (Blank(phone) \/ isLoading))
                 => emitted' = <<>>]_vars

C11_Witness ==
    /\ step = "phone"
    /\ phone = <<" ">>
    /\ emitted = <<>>
    /\ Len(items) = 2
    /\ ENABLED handleSubmit(TRUE)

\* C12: the round trip phone -> validate by "edit items" and back to phone by
\* "next", with nothing in between, leaves the item list as it was: neither
\* step touches the list, and "next" is open right after "edit items".
C12_EditItemsRoundTrip ==
    [][/\ editItems =>
             /\ step' = "validate"
             /\ items' = items
             /\ EveryItemValidated(items')
       /\ (handleValidateNext /\ step = "validate" /\ step' = "phone") =>
             items' = items]_vars

C12_Witness ==
    /\ step = "validate"
    /\ phone = <<"5", " ", "1">>
    /\ Len(items) = 2
    /\ EveryItemValidated(items)
    /\ ENABLED (handleValidateNext /\ step' = "phone")

\* C13: an edit of the type, the full description or a numeric field of a
\* row leaves the validated flag of every item as it was.
C13_EditKeepsValidated ==
    [][(step = "validate" /\ items' # items /\ edits' = edits + 1) =>
       \A i \in 1..Len(items), field \in EditableFields :
          \A value \in fieldInputs(field) :
             updateItemField(i, field, value) =>
                 /\ Len(items') = Len(items)
                 /\ \A j \in 1..Len(items) :
                       items'[j].validated = items[j].validated]_vars

C13_Witness ==
    /\ step = "validate"
    /\ edits > 0
    /\ Len(items) = 2
    /\ items[1].validated
    /\ items[1].item_name = <<"A">>
    /\ items[1].item_type = "procedure"
    /\ ~items[2].validated

C15_NoEmptyLabel ==
    \A k \in 1..Len(emitted) :
       /\ Len(emitted[k].items) = Len(items)
       /\ \A i \in 1..Len(items) :
             /\ emitted[k].items[i].text # <<>>
             /\ emitted[k].items[i].text =
                   IF items[i].item_name_complete # <<>>
                   THEN items[i].item_name_complete
                   ELSE items[i].raw_prescription_text

\* C16: every entry handed to onSubmit carries the item type and the four
\* dosing fields, with the values the wizard item holds at that moment.
C16_PayloadCarriesDosingFields ==
    \A k \in 1..Len(emitted) :
       /\ Len(emitted[k].items) = Len(items)
       /\ \A i \in 1..Len(items), f \in {"item_type"} \cup NumericFields :
             /\ f \in DOMAIN emitted[k].items[i]
             /\ emitted[k].items[i][f] = items[i][f]

\* C17: in every state of the validate step the way back to prescription is
\* open, and taking it changes the step and nothing else: the prescription
\* text and the item list stay as they are.
C17_BackToPrescriptionKeepsAll ==
    /\ [](step = "validate" => ENABLED editPrescription)
    /\ [][editPrescription =>
             /\ step = "validate"
             /\ step' = "prescription"
             /\ UNCHANGED <<prescription, items, phone, selectedCountry,
                            newItemForm, showNewItemForm, extractionError,
                            pending, now, edits>>]_vars

C17_Witness ==
    /\ step = "prescription"
    /\ extractionError = NULL
    /\ pending = <<>>
    /\ Len(items) = 2
    /\ items[1].validated
    /\ ~items[2].validated
    /\ prescription = <<" ", "a">>

\* C18: a successful extraction replaces the whole list: afterwards the list
\* is exactly the items seeded from the new response, none validated, and no
\* validated or manually added item of the previous list is in it.
C18_ExtractionReplacesList ==
    [][pending # <<>> =>
       \A outcome \in FetchOutcomes, clock \in SettledAt :
          (Succeeds(outcome) /\ extractionSettles(outcome, clock)) =>
              /\ Len(items') = Len(outcome.items)
              /\ \A j \in 1..Len(items') :
                    /\ CandidateOf(items'[j]) = outcome.items[j]
                    /\ items'[j].validated = FALSE
              /\ \A k \in 1..Len(items) :
                    (items[k].validated \/ items[k].id = manualId(items[k].id[1]))
                        => \A j \in 1..Len(items') : items'[j] # items[k]]_vars

C18_Witness ==
    /\ step = "validate"
    /\ phone = <<"5", " ", "1">>
    /\ Len(items) = 1
    /\ CandidateOf(items[1]) = candidateE
    /\ ~items[1].validated
    /\ items[1].id = extractedId(0, 1)
    /\ edits = 0

\* The events of the user: every step of the wizard but the settling of the
\* extraction call.
UserEvent ==
    \/ \E value \in PrescriptionInputs : setPrescription(value)
    \/ handlePrescriptionNext
    \/ \E i \in 1..MaxItems : toggleItem(i)
    \/ \E i \in 1..MaxItems, field \in EditableFields :
          \E value \in fieldInputs(field) : updateItemField(i, field, value)
    \/ \E i \in 1..MaxItems : removeItem(i)
    \/ openNewItemForm
    \/ cancelNewItemForm
    \/ \E field \in EditableFields :
          \E value \in fieldInputs(field) : updateNewItemField(field, value)
    \/ \E clock \in ClockReadings : addItem(clock)
    \/ editPrescription
    \/ handleValidateNext
    \/ \E value \in PhoneInputs : setPhone(value)
    \/ \E code \in CountryInputs : selectCountry(code)
    \/ editItems
    \/ \E isLoading \in BOOLEAN : handleSubmit(isLoading)

\* C19: at most one extraction call is in flight; a call is in flight exactly
\* while the step is extracting, and in that step no event of the user is
\* enabled: the only step is the settling of the call, which leaves the text
\* and the phone alone.
C19_OneExtractionInFlight ==
    /\ [](Len(pending) <= 1)
    /\ [](step = "extracting" <=> pending # <<>>)
    /\ [](step = "extracting" => ~ENABLED UserEvent)
    /\ [][step = "extracting" =>
             /\ pending' = <<>>
             /\ step' \in {"validate", "prescription"}
             /\ UNCHANGED <<prescription, phone>>]_vars

C19_Witness ==
    /\ step = "extracting"
    /\ Len(pending) = 1
    /\ Len(items) = 2
    /\ extractionError = NULL

\* C20: an extraction call starts only in handlePrescriptionNext, one call
\* per activation, with the prescription text of that moment; when a call
\* fails no call is left in flight and none starts by itself.
C20_NoAutomaticRetry ==
    [][/\ (pending' # pending /\ pending' # <<>>) =>
             /\ handlePrescriptionNext
             /\ step = "prescription"
             /\ pending' = Append(pending, prescription)
       /\ (pending # <<>> =>
             \A outcome \in FetchOutcomes, clock \in SettledAt :
                (~Succeeds(outcome) /\ extractionSettles(outcome, clock)) =>
                    /\ pending' = <<>>
                    /\ step' = "prescription")
       /\ (step = "prescription" /\ extractionError # NULL /\ ~handlePrescriptionNext)
             => pending' = <<>>]_vars

C20_Witness ==
    /\ step = "prescription"
    /\ extractionError # NULL
    /\ pending = <<>>
    /\ Len(items) = 2
    /\ ~ENABLED (\E outcome \in FetchOutcomes, clock \in ClockReadings :
                    extractionSettles(outcome, clock))

\* C21: every kind of extraction failure is recovered in the wizard: a
\* rejected request, a response that is not OK, an OK response whose body is
\* not JSON and one whose body has no items list each end in the step
\* prescription with the error indicator set and no call left in flight,
\* never in validate or extracting.
C21_EveryFailureRecovered ==
    [][pending # <<>> =>
       \A outcome \in FetchOutcomes, clock \in SettledAt :
          (/\ \/ outcome.kind = "rejected"
              \/ ~outcome.ok
              \/ ~outcome.json
              \/ ~outcome.hasItems
           /\ extractionSettles(outcome, clock)) =>
              /\ step' = "prescription"
              /\ extractionError' # NULL
              /\ pending' = <<>>
              /\ items' = items]_vars

C21_Witness ==
    /\ step = "prescription"
    /\ extractionError = errorExtraction
    /\ pending = <<>>
    /\ items = <<>>
    /\ ~prescriptionNextDisabled

\* C22: when the user chooses "add another" after a submission, the wizard
\* is in the step prescription with empty text, no items and an empty phone,
\* as a newly mounted form; while the success screen is shown the form takes
\* no event, and "add another" is open.
C22_AddAnotherStartsEmpty ==
    /\ [](submitted => (ENABLED handleAddAnother /\ ~ENABLED (~submitted /\ FormStep)))
    /\ [][handleAddAnother =>
             /\ submitted /\ ~submitted'
             /\ step' = "prescription"
             /\ prescription' = <<>>
             /\ items' = <<>>
             /\ phone' = <<>>
             /\ newItemForm' = initialNewItemState
             /\ ~showNewItemForm'
             /\ extractionError' = NULL
             /\ pending' = <<>>
             /\ emitted' = <<>>]_vars

C22_Witness ==
    /\ ~submitted
    /\ step = "prescription"
    /\ prescription = <<>>
    /\ items = <<>>
    /\ phone = <<>>
    /\ selectedCountry = countries[1]
    /\ now = 1
    /\ edits = 1

\* C23: an id that has been deleted is never the id of an item of the list
\* again, whatever manual adds or extractions follow.
C23_DeletedIdsNeverReturn ==
    \A i \in 1..Len(items) : items[i].id \notin deleted

\* C24: no entry of the query cache is left holding, as fresh, data read
\* before a successful create, update, delete or status update of a
\* prescription it depends on: every present entry is invalidated or holds
\* what the backend holds now.
C24_NoStaleEntryServedFresh ==
    \A key \in QueryKeys :
       (queryCache[key].present /\ ~queryCache[key].isInvalidated)
           => queryCache[key].data = readOf(server, key)

\* C25: an operation of the API client rejects with an ApiError carrying the
\* status of the response whenever the response is not OK, with the error
\* code unknown_error when the body cannot be parsed; on an OK response it
\* resolves with the parsed body, and with no value on a 204.
C25_NotOkRejectsWithApiError ==
    settlement # <<>> =>
       LET status == response[1].status
           parsed == responseJson(response[1].body)
       IN /\ ~responseOk(status) =>
                /\ settlement[1].kind = "rejected"
                /\ settlement[1].name = "ApiError"
                /\ settlement[1].status = status
                /\ parsed.throws => settlement[1].value = JsString("unknown_error")
          /\ status = 204 =>
                settlement[1] = resolved(JsUndefined)
          /\ (responseOk(status) /\ status # 204 /\ ~parsed.throws) =>
                settlement[1] = resolved(parsed.value)

\* C26: whatever switches of language came before, t(key) is the entry of
\* the current language when the key is in the table and the key itself
\* when it is not; and going from en to es and back to en gives the en
\* results again.
C26_TranslatesInCurrentLanguage ==
    /\ [](\A k \in DOMAIN rendered :
            rendered[k].text = IF rendered[k].key \in DOMAIN translations
                               THEN translations[rendered[k].key][language]
                               ELSE rendered[k].key)
    /\ [][(/\ Len(languageLog) >= 2
           /\ languageLog[Len(languageLog) - 1] = "en"
           /\ languageLog[Len(languageLog)] = "es"
           /\ setLanguage("en"))
          => \A key \in KeyInputs :
                t(language', key) = IF key \in DOMAIN translations
                                    THEN translations[key]["en"] ELSE key]_vars

C26_Witness ==
    /\ languageLog = <<"en", "es", "en">>
    /\ rendered = <<[key |-> "tagline",
                     text |-> "Because grandma's health is no joke"]>>

\* The loosest reading of a phone number format: digits, with "+", spaces,
\* hyphens and parentheses as the only other characters.
PhoneFormat(s) ==
    /\ \E i \in 1..Len(s) : IsDigit(s[i])
    /\ \A i \in 1..Len(s) : IsDigit(s[i]) \/ s[i] \in {"+", " ", "-", "(", ")"}

\* C27: the form validates the format of the phone number: a phone that is
\* not in the format of a phone number is never passed to onSubmit.
C27_PhoneFormatValidated ==
    \A k \in DOMAIN emitted : PhoneFormat(emitted[k].phone)

\* The arrows of the wizard.
StepEdges ==
    {<<"prescription", "extracting">>, <<"extracting", "validate">>,
     <<"extracting", "prescription">>, <<"validate", "prescription">>,
     <<"validate", "phone">>, <<"phone", "validate">>}

\* C28: the step changes only along prescription -> extracting,
\* extracting -> validate, extracting -> prescription, validate ->
\* prescription, validate -> phone and phone -> validate.
C28_StepFollowsEdges ==
    [][step' # step => <<step, step'>> \in StepEdges]_vars

C28_Witness ==
    /\ step = "validate"
    /\ phone # <<>>
    /\ items # <<>>

\* C29: when every started call of the extraction service settles, the
\* wizard never stays in the extracting step for ever; and the settling of
\* the call is the only way out of that step: there is no cancel and no
\* time-out.
C29_ExtractingEnds ==
    /\ (step = "extracting") ~> (step # "extracting")
    /\ [][(step = "extracting" /\ step' # "extracting")
            => (pending # <<>> /\ pending' = Tail(pending))]_vars
    /\ [](step = "extracting" => ~ENABLED handlePrescriptionNext)

C29_Witness ==
    /\ step = "prescription"
    /\ extractionError = errorExtraction
    /\ pending = <<>>
    /\ ~Blank(prescription)

\* C30: an activation of 'next' in the validate step while the list is
\* empty or has an unvalidated item, and an activation of submit while the
\* phone is blank or isLoading is true, change no state variable, set no
\* error and call neither the extraction service nor onSubmit.
C30_UnmetGateBlockedSilently ==
    [][((handleValidateNext /\ ~EveryItemValidated(items))
        \/ (handleValidateNext /\ items = <<>>)
        \/ (\E isLoading \in BOOLEAN :
               handleSubmit(isLoading) /\ (Blank(phone) \/ isLoading)))
       => /\ UNCHANGED <<step, prescription, items, phone, selectedCountry,
                         newItemForm, showNewItemForm, extractionError,
                         pending>>
          /\ emitted' = <<>>]_vars

C30_Witness ==
    /\ step = "validate"
    /\ items # <<>>
    /\ ~EveryItemValidated(items)
    /\ extractionError = NULL
    /\ pending = <<>>
    /\ emitted = <<>>
    /\ validateNextDisabled

\* C31: a submission leaves the state of the wizard alone, and so does the
\* end of the sink call, whether it succeeded or failed: the step is still
\* phone, the text, the items, the phone and the country are unchanged, and
\* no further call of onSubmit is made without a new activation of submit.
C31_SubmitKeepsWizardState ==
    /\ [][(emitted' # <<>>) =>
            /\ step = "phone" /\ step' = "phone"
            /\ UNCHANGED <<prescription, items, phone, selectedCountry,
                           newItemForm, showNewItemForm, extractionError,
                           pending>>]_vars
    /\ [][(emitted' # <<>> /\ emitted' # emitted) =>
            (Len(emitted') = 1 /\ handleSubmit(FALSE))]_vars
    /\ [][(sinkOutcome' # <<>>) => emitted' = emitted]_vars
    /\ [](Len(emitted) <= 1)

C31_Witness ==
    /\ sinkOutcome = <<FALSE>>
    /\ step = "phone"
    /\ Len(emitted) = 1
    /\ emitted[1].phone = fullPhoneNumber
    /\ items # <<>>

\* The same rows in the same places: equal length and equal ids, row by row.
SameRows(old, new) ==
    /\ Len(new) = Len(old)
    /\ \A i \in 1..Len(old) : new[i].id = old[i].id

\* C32: a manual add puts the new item at the end and leaves every item
\* that was there (id, fields, validated flag) in its place; a toggle and a
\* field edit keep the length and the order of the list.
C32_AddAppendsOrderKept ==
    /\ [][(step = "validate" /\ showNewItemForm /\ items' # items) =>
            ((\E clock \in SettledAt : addItem(clock)) =>
                /\ Len(items') = Len(items) + 1
                /\ SubSeq(items', 1, Len(items)) = items
                /\ items'[Len(items')].id = manualId(now'))]_vars
    /\ [][(step = "validate" /\ items' # items) =>
            ((\E i \in 1..Len(items) : toggleItem(i)) => SameRows(items, items'))]_vars
    /\ [][(step = "validate" /\ items' # items /\ edits' = edits + 1) =>
            SameRows(items, items')]_vars

C32_Witness ==
    /\ step = "validate"
    /\ Len(items) = 2
    /\ items[1].id = extractedId(0, 0)
    /\ items[1].validated
    /\ items[2].id = manualId(1)
    /\ ~showNewItemForm

\* C33: the error indicator of the extraction is set only in the step
\* prescription: only a failed extraction sets it, the start of every
\* extraction attempt clears it, and it is null in every state of the steps
\* extracting, validate and phone.
C33_ErrorOnlyInPrescription ==
    /\ [](extractionError # NULL => step = "prescription")
    /\ [][(extractionError' # NULL /\ extractionError = NULL) =>
            (step = "extracting" /\ step' = "prescription"
               /\ extractionError' = errorExtraction)]_vars
    /\ [][(step # "extracting" /\ step' = "extracting") =>
            extractionError' = NULL]_vars

C33_Witness ==
    /\ step = "prescription"
    /\ extractionError = errorExtraction
    /\ phone # <<>>
    /\ items # <<>>

Extracted(item) == Len(item.id) = 2

\* C35: an extracted item is seeded unvalidated, and its validated flag
\* becomes true only by a toggle of that item: wherever an extracted item is
\* validated after a step, it was validated before the step or the step is
\* the toggle of its row; so the flag is true only after an odd number of
\* toggles, and no edit, manual add, deletion or navigation sets it.
C35_ExtractedValidatedOnlyByToggle ==
    /\ [][(step = "extracting" /\ step' = "validate") =>
            \A j \in 1..Len(items') :
               Extracted(items'[j]) /\ ~items'[j].validated]_vars
    /\ [][step # "extracting" =>
            \A j \in 1..Len(items') :
               (Extracted(items'[j]) /\ items'[j].validated) =>
                  \E k \in 1..Len(items) :
                     /\ items[k].id = items'[j].id
                     /\ items[k].validated \/ toggleItem(k)]_vars
    /\ [][(step # "extracting" /\ ~(\E k \in 1..Len(items) : toggleItem(k))) =>
            \A j \in 1..Len(items') :
               Extracted(items'[j]) =>
                  \A k \in 1..Len(items) :
                     items[k].id = items'[j].id =>
                        items[k].validated = items'[j].validated]_vars

C35_Witness ==
    /\ step = "validate"
    /\ Len(items) = 2
    /\ Extracted(items[1]) /\ items[1].validated
    /\ Extracted(items[2]) /\ ~items[2].validated
    /\ edits = 1
    /\ items[2].item_type # "food"

\* C36: in the steps validate and phone the text is the text that was sent
\* in the latest successful extraction call: the call in flight carries the
\* text of the state, the text changes in the step prescription only, and
\* the step validate is entered from extracting, when that call succeeds,
\* or back from phone.
C36_TextIsTheExtractedText ==
    /\ [](step = "extracting" => pending = <<prescription>>)
    /\ [][step # "prescription" => prescription' = prescription]_vars
    /\ [][(step # "validate" /\ step' = "validate") =>
            \/ step = "phone"
            \/ /\ step = "extracting"
               /\ Head(pending) = prescription'
               /\ pending' = <<>>]_vars
    /\ [][(step # "phone" /\ step' = "phone") => step = "validate"]_vars

C36_Witness ==
    /\ step = "phone"
    /\ prescription = <<" ", "a">>
    /\ extractionError = NULL
    /\ now = 1
    /\ Len(items) = 1

\* C37: the selected country is always an entry of the list of countries,
\* at first the first one, with dial code +52; choosing a code that is not
\* in the list leaves it as it is; a change of country happens in the phone
\* step and leaves the local phone number alone; the country and the phone
\* are the same after going from phone to validate and back.
C37_CountryFromListPhoneKept ==
    /\ selectedCountry = countries[1]
    /\ countries[1].dialCode = <<"+", "5", "2">>
    /\ [](\E k \in 1..Len(countries) : selectedCountry = countries[k])
    /\ [][selectedCountry' # selectedCountry =>
            /\ step = "phone" /\ step' = "phone"
            /\ phone' = phone
            /\ \E code \in CountryInputs :
                  selectCountry(code) /\ selectedCountry'.code = code]_vars
    /\ [][(step = "validate"
           \/ (step = "phone" /\ step' = "validate")) =>
            UNCHANGED <<phone, selectedCountry>>]_vars

C37_Witness ==
    /\ step = "validate"
    /\ selectedCountry.code = "US"
    /\ selectedCountry.dialCode = <<"+", "1">>
    /\ phone = <<"5", " ", "1">>

\* What of an item no control of the wizard edits.
Seeded(item) ==
    <<item.raw_prescription_text, item.confidence_level,
      item.requires_human_review>>

====
